---- MODULE Spec2Model ----
(***************************************************************************)
(* simplesimdb.Manager: a directory of (input.json, output, restart...)    *)
(* files keyed by the sha1 of the input dictionary, with a registry of     *)
(* human readable names persisted in simplesimdb.json.                     *)
(*                                                                         *)
(* The file system is the state.  Every public method is one action; the   *)
(* methods are operators from a file system to a file system plus the      *)
(* value returned or the exception raised, so that a method that raises    *)
(* half way leaves exactly the files the code had touched by then.         *)
(***************************************************************************)
EXTENDS Integers, Sequences, FiniteSets, Bags, TLC

VARIABLES
    fs,         \* the file system: [dirs: the directories that exist, files: path -> content]
    directory,  \* the attribute directory of the Manager: the managed directory
    filetype,   \* the attribute filetype: the output file extension
    executable, \* the attribute executable
    inputfile,  \* the attribute inputfile of the Repeater
    outputfile, \* the attribute outputfile of the Repeater
    last,       \* the call that produced this state, with its arguments and outcome
    ncalls,     \* the number of calls made so far
    procs       \* the positions of the processes that run concurrently

vars == <<fs, directory, filetype, executable, inputfile, outputfile, last, ncalls, procs>>


----------------------------------------------------------------------------
(* Bounds and inputs *)

\* Largest simulation number n passed to create, delete, recreate.
MaxN == 1

\* Number of calls the caller makes in one run.
MaxCalls == 4

\* The input dictionaries the caller passes.
JS == {[x |-> 1], [x |-> 2]}

\* Placeholder for the js field of calls that take no input dictionary.
NoJs == [x |-> 0]

ErrorPolicies == {"raise", "display", "ignore"}

\* What the executable does when run:
\*   ok          writes its output file and exits 0
\*   fail        exits non-zero without an output file
\*   fail_wrote  writes its output file, then exits non-zero
\*   oserror     cannot be started (subprocess.run raises OSError)
Outcomes == {"ok", "fail", "fail_wrote", "oserror"}

\* The defaults of the constructor, and the values the setters are given.
Directory == "./data"
Executable == "./execute.sh"
FileTypes == {"nc", "json"}

----------------------------------------------------------------------------
(* Strings and paths *)

EndsWith(s, suffix) ==
    /\ Len(s) >= Len(suffix)
    /\ SubSeq(s, Len(s) - Len(suffix) + 1, Len(s)) = suffix

\* os.path.join(directory, filename)
Join(dir, filename) == dir \o "/" \o filename

\* the file name of a path inside Directory
Basename(path) == SubSeq(path, Len(directory) + 2, Len(path))

\* ord(c) of the characters of names, keys and file names
Ord(c) ==
    LET chars == "./0123456789_abcdefghijklmnopqrstuvwxyz"
        codes == <<46, 47, 48, 49, 50, 51, 52, 53, 54, 55, 56, 57, 95,
                   97, 98, 99, 100, 101, 102, 103, 104, 105, 106, 107, 108, 109,
                   110, 111, 112, 113, 114, 115, 116, 117, 118, 119, 120, 121, 122>>
    IN  codes[CHOOSE i \in 1..Len(chars) : SubSeq(chars, i, i) = c]

\* Python's s < t on strings
RECURSIVE StrLess(_, _)
StrLess(s, t) ==
    IF t = "" THEN FALSE
    ELSE IF s = "" THEN TRUE
    ELSE LET a == Ord(SubSeq(s, 1, 1))
             b == Ord(SubSeq(t, 1, 1))
         IN  IF a # b THEN a < b
             ELSE StrLess(SubSeq(s, 2, Len(s)), SubSeq(t, 2, Len(t)))

HexDigit(d) == SubSeq("0123456789abcdef", d + 1, d + 1)

RECURSIVE HexDigits(_)
HexDigits(n) == IF n < 16 THEN HexDigit(n) ELSE HexDigits(n \div 16) \o HexDigit(n % 16)

\* Python's hex(n) for n >= 0
Hex(n) == "0x" \o HexDigits(n)

----------------------------------------------------------------------------
(* hashinput *)

\* the items of a dictionary of strings, keys sorted, from the keys left
RECURSIVE DumpItems(_, _)
DumpItems(d, keys) ==
    IF keys = {} THEN ""
    ELSE LET k == CHOOSE a \in keys : \A b \in keys \ {a} : StrLess(a, b)
             item == "\"" \o k \o "\": \"" \o d[k] \o "\""
         IN  IF keys = {k} THEN item ELSE item \o ", " \o DumpItems(d, keys \ {k})

\* json.dumps(js, sort_keys=True, ensure_ascii=True): of an input dictionary
\* {"x": <int>}, and of a dictionary of strings (files() loads every .json
\* file of the directory, the registry among them).
Dumps(js) ==
    IF DOMAIN js = {"x"} THEN "{\"x\": " \o ToString(js.x) \o "}"
    ELSE "{" \o DumpItems(js, DOMAIN js) \o "}"

\* hashlib.sha1(json.dumps(js, ...)).hexdigest(): the digests of the
\* serializations of the input dictionaries; every other string has a digest
\* that is none of these and no name a caller registers.
hashinput(js) ==
    CASE Dumps(js) = "{\"x\": 1}" -> "c8b0bcdb34ded0fdaf264864fe47b8f2cd5dc056"
      [] Dumps(js) = "{\"x\": 2}" -> "d5a5f318536a8697bfd0d84e39da97d47001a6da"
      [] Dumps(js) = "{\"x\": 0}" -> "49004b44ccf328ec8a2fcc0a079bdf70735debe1"
      [] OTHER -> "da39a3ee5e6b4b0d3255bfef95601890afd80709"

\* The names a caller registers: a plain name, the reserved name, and a name
\* that is the sha1 of an input dictionary.
Names == {"a", "simplesimdb", hashinput([x |-> 1])}

----------------------------------------------------------------------------
(* The file system *)

NoFiles == [p \in {} |-> [kind |-> "json"]]

isfile(f, path) == path \in DOMAIN f.files

\* os.path.isdir(directory)
isdir(f) == directory \in f.dirs

\* os.listdir(directory), as paths
listdir(f) ==
    {p \in DOMAIN f.files :
        /\ Len(p) > Len(directory) + 1
        /\ SubSeq(p, 1, Len(directory) + 1) = directory \o "/"}

\* open(path, "w") + dump: needs the directory.
CanOpenForWrite(f) == isdir(f)

write(f, path, content) ==
    [f EXCEPT !.files = [p \in DOMAIN f.files \cup {path} |->
                            IF p = path THEN content ELSE f.files[p]]]

remove(f, path) ==
    [f EXCEPT !.files = [p \in DOMAIN f.files \ {path} |-> f.files[p]]]

JsonContent(val) == [kind |-> "json", val |-> val]
OutContent(js, n) == [kind |-> "out", js |-> js, n |-> n]

\* a file that open(path, "w") has created or truncated and nothing has been
\* flushed to yet
EmptyContent == [kind |-> "empty"]

\* json.load(f) finds a JSON document
Parsable(f, path) == isfile(f, path) /\ f.files[path].kind = "json"

\* Results of a method: the file system it leaves, the exception it raised
\* ("" when it returned) and the stderr attribute the exception carries, the
\* value returned, the executable's argument vectors in the order they were
\* run.
Returned(f, ret, calls) ==
    [fs |-> f, exc |-> "", stderr |-> "", ret |-> ret, calls |-> calls]
Raised(f, exc, calls) ==
    [fs |-> f, exc |-> exc, stderr |-> "", ret |-> "", calls |-> calls]

\* What a failing executable writes to its standard error.
Stderr == "error message of the executable"

\* subprocess.CalledProcessError of a run with capture_output=True
CalledProcessError(f, calls) ==
    [fs |-> f, exc |-> "CalledProcessError", stderr |-> Stderr, ret |-> "", calls |-> calls]

----------------------------------------------------------------------------
(* The registry *)

RegistryFile == Join(directory, "simplesimdb.json")

EmptyRegistry == [k \in {} |-> ""]

get_registry(f) ==
    IF isfile(f, RegistryFile) THEN f.files[RegistryFile].val ELSE EmptyRegistry

\* Variant: an empty registry is written like any other.
DeletesRegistryFileNever(registry) == FALSE

\* "if empty, the registry is deleted"
DeletesRegistryFile(registry) == DOMAIN registry = {}

set_registry(f, registry) ==
    IF ~CanOpenForWrite(f) THEN Raised(f, "FileNotFoundError", <<>>)
    ELSE IF DeletesRegistryFile(registry)
    THEN Returned(remove(write(f, RegistryFile, JsonContent(registry)), RegistryFile), "", <<>>)
    ELSE Returned(write(f, RegistryFile, JsonContent(registry)), "", <<>>)

\* registry.get(hashid, hashid)
Resolve(f, hashid) ==
    IF hashid \in DOMAIN get_registry(f) THEN get_registry(f)[hashid] ELSE hashid

jsonfile(f, js) == Join(directory, Resolve(f, hashinput(js)) \o ".json")

outfile(f, js, n, ft) ==
    IF ft = "json"
    THEN Join(directory, Resolve(f, hashinput(js)) \o (IF n > 0 THEN Hex(n) ELSE "") \o "_out.json")
    ELSE Join(directory, Resolve(f, hashinput(js)) \o (IF n > 0 THEN Hex(n) ELSE "") \o "." \o ft)

exists(f, js, n, ft) == isfile(f, outfile(f, js, n, ft))

----------------------------------------------------------------------------
(* register *)

ReservedName(name) == name = "simplesimdb"

\* the key is known under another name
KnownUnderOtherName(registry, hashid, name) ==
    hashid \in DOMAIN registry /\ name # registry[hashid]

\* Variant: the input file under the sha1 name is not looked for.
UnregisteredInputIgnored(f, registry, hashid) == FALSE

\* the key has no name but its input file exists under the sha1 name
UnregisteredInputExists(f, registry, hashid) ==
    hashid \notin DOMAIN registry /\ isfile(f, Join(directory, hashid \o ".json"))

\* registry[hashid] = name, for a key that has no name yet
Bind(registry, hashid, name) ==
    IF hashid \in DOMAIN registry THEN registry
    ELSE [k \in DOMAIN registry \cup {hashid} |-> IF k = hashid THEN name ELSE registry[k]]

\* Variant: names of other keys are not compared.
NameInUseNever(registry, hashid, name) == FALSE

\* the name belongs to another key
NameInUse(registry, hashid, name) ==
    \E key \in DOMAIN registry : registry[key] = name /\ key # hashid

\* Variant: the registry is stored before the loop over it.
register_store_first(f, updated, hashid, name) ==
    IF NameInUse(updated, hashid, name) /\ CanOpenForWrite(f)
    THEN Raised(set_registry(f, updated).fs, "Exception", <<>>)
    ELSE set_registry(f, updated)

\* the loop over the updated registry, then set_registry
register_store(f, updated, hashid, name) ==
    IF NameInUse(updated, hashid, name) THEN Raised(f, "Exception", <<>>)
    ELSE set_registry(f, updated)

register_check(f, registry, hashid, name) ==
    IF ReservedName(name) THEN Raised(f, "Exception", <<>>)
    ELSE IF KnownUnderOtherName(registry, hashid, name) THEN Raised(f, "Exception", <<>>)
    ELSE IF UnregisteredInputExists(f, registry, hashid) THEN Raised(f, "Exception", <<>>)
    ELSE register_store(f, Bind(registry, hashid, name), hashid, name)

register(f, js, name) == register_check(f, get_registry(f), hashinput(js), name)

----------------------------------------------------------------------------
(* create *)

\* The executable, run with argv = [executable, input, output(, previous)]:
\* it writes at most its output file, argv[3].
RunExecutable(f, argv, js, n, outcome) ==
    IF outcome \in {"ok", "fail_wrote"} THEN write(f, argv[3], OutContent(js, n)) ELSE f

\* Variant: the output file and the previous output file change places.
ArgvSwapped(input, ncfile, previous_ncfile, n) ==
    IF n = 0 THEN <<executable, input, ncfile>>
    ELSE <<executable, input, previous_ncfile, ncfile>>

\* the argument vector of subprocess.run
Argv(input, ncfile, previous_ncfile, n) ==
    IF n = 0 THEN <<executable, input, ncfile>>
    ELSE <<executable, input, ncfile, previous_ncfile>>

\* Variant: the existing output file is not recognised.
CacheHitNever(f, ncfile) == FALSE

CacheHit(f, ncfile) == isfile(f, ncfile)

\* Variant: the input file is removed after every failed run.
RemovesInputAlways(n) == TRUE

\* Variant: the input file is never removed.
RemovesInputNever(n) == FALSE

\* "only remove input if not restarted"
RemovesInput(n) == n = 0

rollback_input(f, js, n) ==
    IF RemovesInput(n) THEN remove(f, jsonfile(f, js)) ELSE f

\* Variant: the clean-up also takes the key out of the registry.
RollbackAndUnbind(f, js, n, ncfile) ==
    set_registry(rollback_input(IF isfile(f, ncfile) THEN remove(f, ncfile) ELSE f, js, n),
                 [k \in DOMAIN get_registry(f) \ {hashinput(js)} |-> get_registry(f)[k]]).fs

\* except subprocess.CalledProcessError: clean up the entry
Rollback(f, js, n, ncfile) ==
    rollback_input(IF isfile(f, ncfile) THEN remove(f, ncfile) ELSE f, js, n)

\* Variant: the error is swallowed only under "ignore".
PropagatesUnlessIgnored(error) == error # "ignore"

\* whether the CalledProcessError leaves create
Propagates(error) == error = "raise"

\* after subprocess.run: f is the file system the executable left
create_ran(f, js, n, ncfile, argv, error, outcome) ==
    CASE outcome = "ok" -> Returned(f, ncfile, <<argv>>)
      [] outcome = "oserror" -> Raised(f, "OSError", <<argv>>)
      [] OTHER ->
            IF Propagates(error)
            THEN CalledProcessError(Rollback(f, js, n, ncfile), <<argv>>)
            ELSE Returned(Rollback(f, js, n, ncfile), ncfile, <<argv>>)

\* the try block: f holds the input file
create_run(f, js, n, ncfile, argv, error, outcome) ==
    create_ran(RunExecutable(f, argv, js, n, outcome), js, n, ncfile, argv, error, outcome)

\* the else branch: write the input file if there is none, then run
create_missing(f, ft, js, n, ncfile, input, error, outcome) ==
    IF isfile(f, input)
    THEN create_run(f, js, n, ncfile,
                    Argv(input, ncfile, outfile(f, js, n - 1, ft), n), error, outcome)
    ELSE IF ~CanOpenForWrite(f) THEN Raised(f, "FileNotFoundError", <<>>)
    ELSE create_run(write(f, input, JsonContent(js)), js, n, ncfile,
                    Argv(input, ncfile, outfile(f, js, n - 1, ft), n), error, outcome)

create_lookup(f, ft, js, n, ncfile, error, outcome) ==
    IF CacheHit(f, ncfile) THEN Returned(f, ncfile, <<>>)
    ELSE create_missing(f, ft, js, n, ncfile, jsonfile(f, js), error, outcome)

\* after the registration of the name, if one was given
create_registered(reg, ft, js, n, error, outcome) ==
    IF reg.exc # "" THEN reg
    ELSE create_lookup(reg.fs, ft, js, n, outfile(reg.fs, js, n, ft), error, outcome)

create(f, ft, js, n, name, error, outcome) ==
    create_registered(IF name # "" THEN register(f, js, name) ELSE Returned(f, "", <<>>),
                      ft, js, n, error, outcome)

----------------------------------------------------------------------------
(* create, killed on its way *)

\* The process that runs create is killed: the call neither returns nor
\* raises, and the files are left as they are.
Killed(f, calls) ==
    [fs |-> f, exc |-> "killed", stderr |-> "", ret |-> "", calls |-> calls]

\* create has reached subprocess.run: it has neither returned nor raised.
Waiting(f) ==
    [fs |-> f, exc |-> "waiting", stderr |-> "", ret |-> "", calls |-> <<>>]

\* create, killed after it has reached subprocess.run: at "written" before
\* the executable is started, at "running" while subprocess.run waits for the
\* executable, which runs on, at "ran" after the executable has ended, at
\* "rollback" between the removal of the output file and the removal of the
\* input file, at "cleaned" after the except clause has removed what it
\* removes and before create raises or returns.  f holds the input file.
create_killed(f, js, n, ncfile, argv, point, outcome) ==
    CASE point = "written" -> Killed(f, <<>>)
      [] point = "running" -> Killed(f, <<argv>>)
      [] point = "ran" -> Killed(RunExecutable(f, argv, js, n, outcome), <<argv>>)
      [] point = "rollback" ->
            Killed(remove(RunExecutable(f, argv, js, n, outcome), ncfile), <<argv>>)
      [] OTHER -> Killed(Rollback(RunExecutable(f, argv, js, n, outcome), js, n, ncfile),
                         <<argv>>)

\* the look-up of the output file and the with block that writes the input
\* file; killed at "registered" before the look-up, or at "input" when
\* open(input, "w") has made the file and json.dump has written nothing
create_started_lookup(f, js, ncfile, input, point) ==
    IF point = "registered" THEN Killed(f, <<>>)
    ELSE IF CacheHit(f, ncfile) THEN Returned(f, ncfile, <<>>)
    ELSE IF isfile(f, input) THEN Waiting(f)
    ELSE IF ~CanOpenForWrite(f) THEN Raised(f, "FileNotFoundError", <<>>)
    ELSE IF point = "input" THEN Killed(write(f, input, EmptyContent), <<>>)
    ELSE Waiting(write(f, input, JsonContent(js)))

\* create(js, n, name) up to subprocess.run; register and outfile load the
\* registry file if there is one.  Killed at "arrival" before anything is
\* read, which without a name is also where "registered" is; killed at
\* "registry" when set_registry, called by register, has opened the registry
\* file and written nothing.
create_started(f, ft, js, n, name, point) ==
    IF point = "arrival" \/ (name = "" /\ point = "registered") THEN Killed(f, <<>>)
    ELSE IF isfile(f, RegistryFile) /\ ~Parsable(f, RegistryFile)
    THEN Raised(f, "JSONDecodeError", <<>>)
    ELSE IF name # "" /\ register(f, js, name).exc # "" THEN register(f, js, name)
    ELSE IF name # "" /\ point = "registry"
    THEN Killed(write(f, RegistryFile, EmptyContent), <<>>)
    ELSE IF name # ""
    THEN create_started_lookup(register(f, js, name).fs, js,
                               outfile(register(f, js, name).fs, js, n, ft),
                               jsonfile(register(f, js, name).fs, js), point)
    ELSE create_started_lookup(f, js, outfile(f, js, n, ft), jsonfile(f, js), point)

----------------------------------------------------------------------------
(* delete *)

\* n == 0: f is the file system without the output file.  The input file is
\* removed before the registry is read: when the registry names the registry
\* file as the input file, the registry that is read is empty.  The key is
\* deleted from the registry that was read, which is then stored.
delete_entry(f, js) ==
    IF ~isfile(f, jsonfile(f, js)) THEN Raised(f, "FileNotFoundError", <<>>)
    ELSE set_registry(remove(f, jsonfile(f, js)),
                      [k \in DOMAIN get_registry(remove(f, jsonfile(f, js))) \ {hashinput(js)}
                          |-> get_registry(remove(f, jsonfile(f, js)))[k]])

\* Variant: the input file and the name are removed at every index.
delete_output_entry_always(f, js, n, ncfile) ==
    IF ~isfile(f, ncfile) THEN Returned(f, "", <<>>)
    ELSE delete_entry(remove(f, ncfile), js)

delete_output(f, js, n, ncfile) ==
    IF ~isfile(f, ncfile) THEN Returned(f, "", <<>>)
    ELSE IF n = 0 THEN delete_entry(remove(f, ncfile), js)
    ELSE Returned(remove(f, ncfile), "", <<>>)

\* self.outfile(js, n) loads the registry file if there is one
delete(f, ft, js, n) ==
    IF isfile(f, RegistryFile) /\ ~Parsable(f, RegistryFile)
    THEN Raised(f, "JSONDecodeError", <<>>)
    ELSE delete_output(f, js, n, outfile(f, js, n, ft))

----------------------------------------------------------------------------
(* select *)

\* Variant: the path is returned without looking for the file.
select_unchecked(f, js, n, ncfile) == Returned(f, ncfile, <<>>)

select_output(f, js, n, ncfile) ==
    IF ~isfile(f, ncfile) THEN Raised(f, "ValueError", <<>>)
    ELSE Returned(f, ncfile, <<>>)

select(f, ft, js, n) == select_output(f, js, n, outfile(f, js, n, ft))

----------------------------------------------------------------------------
(* count, files, delete_all *)

\* Variant: every existing output file from number on is counted.
CountExisting(f, ft, js, number) ==
    number + Cardinality({m \in number..(MaxN + 2) : exists(f, js, m, ft)})

RECURSIVE CountFrom(_, _, _, _)
CountFrom(f, ft, js, number) ==
    IF exists(f, js, number, ft) THEN CountFrom(f, ft, js, number + 1) ELSE number

count(f, ft, js) == CountFrom(f, ft, js, 0)

\* the files files() opens
InputFiles(f) ==
    {p \in listdir(f) :
        EndsWith(Basename(p), ".json") /\ ~EndsWith(Basename(p), "out.json")}

\* the entries appended for one input file
EntriesOf(f, ft, path) ==
    {[id |-> Resolve(f, hashinput(f.files[path].val)), n |-> n,
      inputfile |-> jsonfile(f, f.files[path].val),
      outputfile |-> outfile(f, f.files[path].val, n, ft)] :
        n \in 0..(count(f, ft, f.files[path].val) - 1)}

RECURSIVE Repeat(_, _)
Repeat(e, k) == IF k = 0 THEN <<>> ELSE <<e>> \o Repeat(e, k - 1)

\* sorted(table, key=operator.itemgetter("id", "n")): times[e] is the number
\* of times the entry e was appended
RECURSIVE SortedTable(_, _)
SortedFrom(times, entries, first) ==
    Repeat(first, times[first]) \o SortedTable(times, entries \ {first})

SortedTable(times, entries) ==
    IF entries = {} THEN <<>>
    ELSE SortedFrom(times, entries,
                    CHOOSE d \in entries :
                        \A e \in entries :
                            StrLess(d.id, e.id) \/ (d.id = e.id /\ d.n <= e.n))

\* an entry is appended once for every input file that yields it
files(f, ft) ==
    IF ~isdir(f) THEN Raised(f, "FileNotFoundError", <<>>)
    ELSE IF \E p \in InputFiles(f) : f.files[p].kind # "json"
    THEN Raised(f, "JSONDecodeError", <<>>)
    ELSE Returned(f, SortedTable([e \in UNION {EntriesOf(f, ft, p) : p \in InputFiles(f)} |->
                                     Cardinality({p \in InputFiles(f) : e \in EntriesOf(f, ft, p)})],
                                 UNION {EntriesOf(f, ft, p) : p \in InputFiles(f)}), <<>>)

\* the loop of table() over the entries from position i: every input file
\* is opened and loaded, that of an entry with n = 0 is appended
RECURSIVE table_rows(_, _, _, _)
table_rows(f, entries, i, rows) ==
    IF i > Len(entries) THEN Returned(f, rows, <<>>)
    ELSE IF ~isfile(f, entries[i].inputfile) THEN Raised(f, "FileNotFoundError", <<>>)
    ELSE IF f.files[entries[i].inputfile].kind # "json" THEN Raised(f, "JSONDecodeError", <<>>)
    ELSE table_rows(f, entries, i + 1,
                    IF entries[i].n = 0
                    THEN Append(rows, f.files[entries[i].inputfile].val)
                    ELSE rows)

\* Manager.table (named Table: table is the list of entries in files and delete_all)
Table(f, ft) ==
    IF files(f, ft).exc # "" THEN files(f, ft)
    ELSE table_rows(f, files(f, ft).ret, 1, <<>>)

\* the loop of delete_all over the entries from position i
RECURSIVE RemoveEntries(_, _, _)
remove_output(f, table, i) ==
    IF ~isfile(f, table[i].outputfile) THEN Raised(f, "FileNotFoundError", <<>>)
    ELSE RemoveEntries(remove(f, table[i].outputfile), table, i + 1)

RemoveEntries(f, table, i) ==
    IF i > Len(table) THEN Returned(f, "", <<>>)
    ELSE IF table[i].n # 0 THEN remove_output(f, table, i)
    ELSE IF ~isfile(f, table[i].inputfile) THEN Raised(f, "FileNotFoundError", <<>>)
    ELSE remove_output(remove(f, table[i].inputfile), table, i)

\* os.rmdir under suppress(OSError)
rmdir(f) == IF listdir(f) = {} THEN [f EXCEPT !.dirs = @ \ {directory}] ELSE f

delete_all_cleared(cleared) ==
    IF cleared.exc # "" THEN cleared ELSE Returned(rmdir(cleared.fs), "", <<>>)

\* Variant: the registry is not cleared.
delete_all_removed_keeps_registry(removed) ==
    IF removed.exc # "" THEN removed
    ELSE delete_all_cleared(Returned(removed.fs, "", <<>>))

delete_all_removed(removed) ==
    IF removed.exc # "" THEN removed
    ELSE delete_all_cleared(set_registry(removed.fs, EmptyRegistry))

delete_all(f, ft) ==
    IF files(f, ft).exc # "" THEN Raised(f, files(f, ft).exc, <<>>)
    ELSE delete_all_removed(RemoveEntries(f, files(f, ft).ret, 1))

\* the directory setter: os.makedirs(directory, exist_ok=True)
set_directory(f, path) == Returned([f EXCEPT !.dirs = @ \cup {path}], "", <<>>)

----------------------------------------------------------------------------
(* recreate *)

recreate_deleted(deleted, ft, js, n, name, error, outcome) ==
    IF deleted.exc # "" THEN deleted
    ELSE create(deleted.fs, ft, js, n, name, error, outcome)

recreate(f, ft, js, n, name, error, outcome) ==
    recreate_deleted(delete(f, ft, js, n), ft, js, n, name, error, outcome)

----------------------------------------------------------------------------
(* Repeater *)

\* The single file pair of a Repeater: the defaults of its constructor.
Inputfile == "temp.json"
Outputfile == "temp.nc"

\* Variant: an input file that is there is not written again.
repeater_input_if_missing(f, js) ==
    IF isfile(f, inputfile) THEN f ELSE write(f, inputfile, JsonContent(js))

\* with open(self.inputfile, "w") as f: json.dump(js, f, ...)
repeater_input(f, js) == write(f, inputfile, JsonContent(js))

\* after subprocess.run: f is the file system the executable left
repeater_ran(f, argv, error, outcome) ==
    CASE outcome = "ok" -> Returned(f, "", <<argv>>)
      [] outcome = "oserror" -> Raised(f, "OSError", <<argv>>)
      [] OTHER ->
            IF Propagates(error) THEN CalledProcessError(f, <<argv>>)
            ELSE Returned(f, "", <<argv>>)

\* Repeater.run, on the file pair and the executable the attributes name
run(f, js, error, outcome) ==
    repeater_ran(RunExecutable(repeater_input(f, js),
                               <<executable, inputfile, outputfile>>, js, 0, outcome),
                 <<executable, inputfile, outputfile>>, error, outcome)

\* Repeater.clean
clean(f) == Returned(remove(remove(f, inputfile), outputfile), "", <<>>)

----------------------------------------------------------------------------
(* The earlier Manager, without restart index and names *)

database_jsonfile(js) == Join(directory, hashinput(js) \o ".json")

database_outfile(js, ft) ==
    IF ft = "json" THEN Join(directory, hashinput(js) \o "_out.json")
    ELSE Join(directory, hashinput(js) \o "." \o ft)

\* after subprocess.run: f is the file system the executable left
\* except subprocess.CalledProcessError as e:
\*     os.remove(ncfile); os.remove(jsonfile); raise e
database_ran(f, ncfile, input, argv, outcome) ==
    CASE outcome = "ok" -> Returned(f, ncfile, <<argv>>)
      [] outcome = "oserror" -> Raised(f, "OSError", <<argv>>)
      [] OTHER ->
            IF ~isfile(f, ncfile) THEN Raised(f, "FileNotFoundError", <<argv>>)
            ELSE CalledProcessError(remove(remove(f, ncfile), input), <<argv>>)

\* the else branch: the input file is written anew, then the run
database_lookup(f, js, ncfile, input, outcome) ==
    IF isfile(f, ncfile) THEN Returned(f, ncfile, <<>>)
    ELSE database_ran(RunExecutable(write(f, input, JsonContent(js)),
                                    <<executable, input, ncfile>>, js, 0, outcome),
                      ncfile, input, <<executable, input, ncfile>>, outcome)

\* Manager.create(js) of simplesimdb.py and of simplesimdb/database.py
database_create(f, ft, js, outcome) ==
    database_lookup(f, js, database_outfile(js, ft), database_jsonfile(js), outcome)

\* Manager.delete(js) of the same modules
database_delete(f, ft, js) ==
    IF ~isfile(f, database_outfile(js, ft)) THEN Returned(f, "", <<>>)
    ELSE IF ~isfile(f, database_jsonfile(js))
    THEN Raised(remove(f, database_outfile(js, ft)), "FileNotFoundError", <<>>)
    ELSE Returned(remove(remove(f, database_outfile(js, ft)), database_jsonfile(js)),
                  "", <<>>)

\* Manager.replace(js): self.delete(js); return self.create(js)
database_replace(f, ft, js, outcome) ==
    IF database_delete(f, ft, js).exc # "" THEN database_delete(f, ft, js)
    ELSE database_create(database_delete(f, ft, js).fs, ft, js, outcome)

\* Manager.select(js) of simplesimdb/database.py: hashinput is no global name
database_select(f, ft, js) == Raised(f, "NameError", <<>>)

\* Manager.table() of simplesimdb/database.py: every file name that ends with
\* ".json" is opened and loaded; the result is {id : inputfile}, the id
\* os.path.splitext(os.path.split(filename)[1])[0]; the key is added only if
\* the output file of the loaded dictionary exists
database_table(f, ft) ==
    IF ~isdir(f) THEN Raised(f, "FileNotFoundError", <<>>)
    ELSE IF \E p \in listdir(f) : EndsWith(Basename(p), ".json") /\ f.files[p].kind # "json"
    THEN Raised(f, "JSONDecodeError", <<>>)
    ELSE Returned(f, [key \in {SubSeq(Basename(p), 1, Len(Basename(p)) - 5) :
                                  p \in {q \in listdir(f) :
                                            /\ EndsWith(Basename(q), ".json")
                                            /\ isfile(f, database_outfile(f.files[q].val, ft))}}
                         |-> f.files[Join(directory, key \o ".json")].val], <<>>)

\* for key in tab: self.delete(tab[key])
RECURSIVE database_delete_each(_, _, _, _)
database_delete_each(f, ft, tab, keys) ==
    IF keys = {} THEN Returned(f, "", <<>>)
    ELSE IF database_delete(f, ft, tab[CHOOSE key \in keys : TRUE]).exc # ""
    THEN database_delete(f, ft, tab[CHOOSE key \in keys : TRUE])
    ELSE database_delete_each(database_delete(f, ft, tab[CHOOSE key \in keys : TRUE]).fs,
                              ft, tab, keys \ {CHOOSE key \in keys : TRUE})

\* Manager.delete_all() of simplesimdb/database.py
database_delete_all(f, ft) ==
    IF database_table(f, ft).exc # "" THEN database_table(f, ft)
    ELSE database_delete_each(f, ft, database_table(f, ft).ret,
                              DOMAIN database_table(f, ft).ret)

----------------------------------------------------------------------------
(* The calls *)

\* The caller's position: idle (NoCall), or holding the outcome of the call
\* it just made, which it drops (Continue) before it makes the next call.
Call(op, js, n, name, error, exit, res) ==
    [op |-> op, js |-> js, n |-> n, name |-> name, error |-> error,
     exit |-> exit, exc |-> res.exc, stderr |-> res.stderr, ret |-> res.ret,
     calls |-> res.calls]

NoCall ==
    [op |-> "idle", js |-> NoJs, n |-> 0, name |-> "", error |-> "",
     exit |-> "", exc |-> "", stderr |-> "", ret |-> "", calls |-> <<>>]

\* The exit code class of an executable's behaviour.
Exit(outcome) ==
    CASE outcome = "ok" -> "zero"
      [] outcome \in {"fail", "fail_wrote"} -> "nonzero"
      [] OTHER -> "oserror"

\* A single caller: no process runs create concurrently.
NoProcs == <<>>

Init ==
    /\ fs = [dirs |-> {Directory}, files |-> NoFiles]
    /\ directory = Directory
    /\ executable = Executable
    /\ inputfile = Inputfile
    /\ outputfile = Outputfile
    /\ filetype \in FileTypes
    /\ last = NoCall
    /\ ncalls = 0
    /\ procs = NoProcs

\* The caller is idle and makes its next call.
MayCall ==
    /\ last.op = "idle"
    /\ ncalls < MaxCalls
    /\ ncalls' = ncalls + 1

\* The call op(js, n, name, error) with result res becomes the last call.
\* The executable's behaviour is an input only of a call that runs it.
Step(op, js, n, name, error, outcome, res) ==
    /\ res.calls # <<>> \/ outcome = "ok"
    /\ fs' = res.fs
    /\ last' = Call(op, js, n, name, error,
                    IF res.calls # <<>> THEN Exit(outcome) ELSE "", res)
    /\ UNCHANGED <<directory, filetype, executable, inputfile, outputfile, procs>>

Create ==
    /\ MayCall
    /\ \E js \in JS, n \in 0..MaxN, name \in Names \cup {""},
          error \in ErrorPolicies, outcome \in Outcomes :
        Step("create", js, n, name, error, outcome,
             create(fs, filetype, js, n, name, error, outcome))

Recreate ==
    /\ MayCall
    /\ \E js \in JS, n \in 0..MaxN, name \in Names \cup {""},
          error \in ErrorPolicies, outcome \in Outcomes :
        Step("recreate", js, n, name, error, outcome,
             recreate(fs, filetype, js, n, name, error, outcome))

Register ==
    /\ MayCall
    /\ \E js \in JS, name \in Names :
        Step("register", js, 0, name, "", "ok", register(fs, js, name))

Delete ==
    /\ MayCall
    /\ \E js \in JS, n \in 0..MaxN :
        Step("delete", js, n, "", "", "ok", delete(fs, filetype, js, n))

Select ==
    /\ MayCall
    /\ \E js \in JS, n \in 0..MaxN :
        Step("select", js, n, "", "", "ok", select(fs, filetype, js, n))

DeleteAll ==
    /\ MayCall
    /\ Step("delete_all", NoJs, 0, "", "", "ok", delete_all(fs, filetype))

\* The caller sets the directory to the path it has: the directory is there
\* again after a delete_all.
SetDirectory ==
    /\ MayCall
    /\ Step("set_directory", NoJs, 0, "", "", "ok", set_directory(fs, directory))

\* The caller drops the outcome of its last call.
Continue ==
    /\ last.op # "idle"
    /\ last' = NoCall
    /\ UNCHANGED <<fs, directory, filetype, executable, inputfile, outputfile, ncalls, procs>>

Next ==
    \/ Create \/ Recreate \/ Register \/ Delete \/ Select
    \/ DeleteAll \/ SetDirectory \/ Continue

Spec == Init /\ [][Next]_vars

\* set_registry(registry), called by the caller with any dictionary from keys
\* of input dictionaries to these names
SetRegistry ==
    /\ MayCall
    /\ \E registry \in UNION {[K -> {"a", "simplesimdb", hashinput([x |-> 2])}] :
                                K \in SUBSET {hashinput(js) : js \in JS}} :
        Step("set_registry", NoJs, 0, "", "", "ok", set_registry(fs, registry))

\* manager.directory = path: the attribute is set and the directory made
MoveDirectory ==
    /\ MayCall
    /\ \E path \in {Directory, "./other"} :
        /\ directory' = path
        /\ fs' = set_directory(fs, path).fs
        /\ last' = Call("set_directory", NoJs, 0, path, "", "", set_directory(fs, path))
    /\ UNCHANGED <<filetype, executable, inputfile, outputfile, procs>>

\* manager.filetype = ft
SetFiletype ==
    /\ MayCall
    /\ \E ft \in FileTypes :
        /\ filetype' = ft
        /\ last' = Call("set_filetype", NoJs, 0, ft, "", "", Returned(fs, "", <<>>))
    /\ UNCHANGED <<fs, directory, executable, inputfile, outputfile, procs>>

\* manager.executable = path
SetExecutable ==
    /\ MayCall
    /\ \E path \in {Executable, "./other.sh"} :
        /\ executable' = path
        /\ last' = Call("set_executable", NoJs, 0, path, "", "", Returned(fs, "", <<>>))
    /\ UNCHANGED <<fs, directory, filetype, inputfile, outputfile, procs>>

\* A caller that also uses the setters and set_registry.
SetterNext ==
    \/ Create \/ Recreate \/ Register \/ Delete \/ Select \/ DeleteAll
    \/ SetRegistry \/ MoveDirectory \/ SetFiletype \/ SetExecutable \/ Continue

SetterSpec == Init /\ [][SetterNext]_vars

\* A caller that builds and cuts restart chains: create and delete at the
\* indices 0..MaxN + 1, under no name or the name "a", with the default error
\* policy.
ChainCreate ==
    /\ MayCall
    /\ \E js \in JS, n \in 0..(MaxN + 1), name \in {"", "a"}, outcome \in {"ok", "fail"} :
        Step("create", js, n, name, "raise", outcome,
             create(fs, filetype, js, n, name, "raise", outcome))

ChainDelete ==
    /\ MayCall
    /\ \E js \in JS, n \in 0..(MaxN + 1) :
        Step("delete", js, n, "", "", "ok", delete(fs, filetype, js, n))

ChainNext == ChainCreate \/ ChainDelete \/ Continue

ChainSpec == Init /\ [][ChainNext]_vars

\* Display names that end like an output file name or like a restart suffix.
SuffixNames == {"a", "a_out", "a0x1"}

\* A caller that names its records with SuffixNames, under the default error
\* policy.
NamedCreate ==
    /\ MayCall
    /\ \E js \in JS, n \in 0..MaxN, name \in SuffixNames \cup {""}, outcome \in {"ok", "fail"} :
        Step("create", js, n, name, "raise", outcome,
             create(fs, filetype, js, n, name, "raise", outcome))

NamedNext == NamedCreate \/ Delete \/ DeleteAll \/ Continue

NamedSpec == Init /\ [][NamedNext]_vars

\* The executables that run on after their create was killed, at most
\* MaxOrphans at a time.
MaxOrphans == 1

\* create(js, n, name, error) up to subprocess.run: the call ends here when
\* the registration raises, the output file exists or the input file cannot
\* be written, and otherwise waits for the executable.
CrashCreate ==
    /\ MayCall
    /\ \E js \in JS, n \in 0..MaxN, name \in Names \cup {""}, error \in ErrorPolicies :
        Step(IF create_started(fs, filetype, js, n, name, "").exc = "waiting"
             THEN "create_waiting" ELSE "create",
             js, n, name, error, "ok",
             IF create_started(fs, filetype, js, n, name, "").exc = "waiting"
             THEN Returned(create_started(fs, filetype, js, n, name, "").fs, "", <<>>)
             ELSE create_started(fs, filetype, js, n, name, ""))

\* The process that runs create is killed before create reaches
\* subprocess.run: "arrival" before it has read or written anything,
\* "registry" inside set_registry, "registered" after the registration,
\* "input" inside the with block of the input file.
InterruptedStart ==
    /\ MayCall
    /\ \E js \in JS, n \in 0..MaxN, name \in Names \cup {""},
          point \in {"arrival", "registry", "registered", "input"} :
        /\ create_started(fs, filetype, js, n, name, point).exc = "killed"
        /\ Step("create_interrupted", js, n, name, "", "ok",
                create_started(fs, filetype, js, n, name, point))

\* The try block of the waiting create, on the files as they are by now:
\* subprocess.run ends, and the except clause cleans up after an exit code
\* other than zero.
CrashRun ==
    /\ last.op \in {"create_waiting", "recreate_waiting"}
    /\ \E outcome \in Outcomes :
        Step(IF last.op = "create_waiting" THEN "create" ELSE "recreate",
             last.js, last.n, last.name, last.error, outcome,
             create_run(fs, last.js, last.n, outfile(fs, last.js, last.n, filetype),
                        Argv(jsonfile(fs, last.js), outfile(fs, last.js, last.n, filetype),
                             outfile(fs, last.js, last.n - 1, filetype), last.n),
                        last.error, outcome))
    /\ UNCHANGED ncalls

\* The process of the waiting create is killed: "written" before the
\* executable is started, "running" while it runs, "ran" after it has ended,
\* "rollback" between the removal of the output file and the removal of the
\* input file, "cleaned" after both removals.  The run has an exit code at
\* "ran" and a non-zero one at "rollback" and "cleaned"; at "running" the
\* executable has not ended and is left to itself.
InterruptedCreate ==
    /\ last.op \in {"create_waiting", "recreate_waiting"}
    /\ \E point \in {"written", "running", "ran", "rollback", "cleaned"},
          outcome \in Outcomes \ {"oserror"} :
        /\ point \in {"rollback", "cleaned"} => outcome # "ok"
        /\ point = "written" => outcome = "ok"
        /\ point = "running" => outcome = "ok" /\ Len(procs) < MaxOrphans
        /\ fs' = create_killed(fs, last.js, last.n, outfile(fs, last.js, last.n, filetype),
                               Argv(jsonfile(fs, last.js),
                                    outfile(fs, last.js, last.n, filetype),
                                    outfile(fs, last.js, last.n - 1, filetype), last.n),
                               point, outcome).fs
        /\ last' = Call("create_interrupted", last.js, last.n, last.name, "",
                        IF point \in {"written", "running"} THEN "" ELSE Exit(outcome),
                        create_killed(fs, last.js, last.n,
                                      outfile(fs, last.js, last.n, filetype),
                                      Argv(jsonfile(fs, last.js),
                                           outfile(fs, last.js, last.n, filetype),
                                           outfile(fs, last.js, last.n - 1, filetype),
                                           last.n),
                                      point, outcome))
        /\ procs' = IF point = "running"
                    THEN Append(procs,
                                [argv |-> Argv(jsonfile(fs, last.js),
                                               outfile(fs, last.js, last.n, filetype),
                                               outfile(fs, last.js, last.n - 1, filetype),
                                               last.n),
                                 js |-> last.js, n |-> last.n])
                    ELSE procs
    /\ UNCHANGED <<directory, filetype, executable, inputfile, outputfile, ncalls>>

\* An executable whose create was killed writes its output file or not, and
\* exits; no call is waiting for it.  It may do so while a later call is
\* between two of its steps.
OrphanExit ==
    /\ procs # NoProcs
    /\ \E i \in 1..Len(procs), outcome \in Outcomes \ {"oserror"} :
        /\ fs' = IF isdir(fs)
                 THEN RunExecutable(fs, procs[i].argv, procs[i].js, procs[i].n, outcome)
                 ELSE fs
        /\ procs' = SubSeq(procs, 1, i - 1) \o SubSeq(procs, i + 1, Len(procs))
    /\ UNCHANGED <<directory, filetype, executable, inputfile, outputfile, last, ncalls>>

\* The caller's next process finds the killed create and calls recreate(js, n):
\* self.delete(js, n)
RepairDelete ==
    /\ last.op = "create_interrupted"
    /\ ncalls < MaxCalls
    /\ ncalls' = ncalls + 1
    /\ Step(IF delete(fs, filetype, last.js, last.n).exc # "" THEN "recreate"
            ELSE "recreate_deleted",
            last.js, last.n, "", "", "ok", delete(fs, filetype, last.js, last.n))

\* return self.create(js, n, name, error, stdout), up to subprocess.run
Repair ==
    /\ last.op = "recreate_deleted"
    /\ \E error \in ErrorPolicies :
        Step(IF create_started(fs, filetype, last.js, last.n, "", "").exc = "waiting"
             THEN "recreate_waiting" ELSE "recreate",
             last.js, last.n, "", error, "ok",
             IF create_started(fs, filetype, last.js, last.n, "", "").exc = "waiting"
             THEN Returned(create_started(fs, filetype, last.js, last.n, "", "").fs, "", <<>>)
             ELSE create_started(fs, filetype, last.js, last.n, "", ""))
    /\ UNCHANGED ncalls

\* delete_all(): files = self.files(), up to os.listdir: the files that
\* files() is going to open, and no entry yet
CrashListdir ==
    /\ MayCall
    /\ Step(IF ~isdir(fs) THEN "delete_all"
            ELSE IF InputFiles(fs) = {} THEN "delete_all_listed"
            ELSE "delete_all_listing",
            NoJs, 0, "", "", "ok",
            IF ~isdir(fs) THEN Raised(fs, "FileNotFoundError", <<>>)
            ELSE IF InputFiles(fs) = {} THEN Returned(fs, <<>>, <<>>)
            ELSE Returned(fs, [todo |-> InputFiles(fs), table |-> EmptyBag], <<>>))

\* the body of the loop of files() for one file name, in the order os.listdir
\* gave: the file is loaded, the outputs are counted as they are by now and
\* the entries appended; after the last file the table is sorted
CrashLoad ==
    /\ last.op = "delete_all_listing"
    /\ \E p \in last.ret.todo :
        Step(IF ~Parsable(fs, p) \/ (isfile(fs, RegistryFile) /\ ~Parsable(fs, RegistryFile))
             THEN "delete_all"
             ELSE IF last.ret.todo = {p} THEN "delete_all_listed"
             ELSE "delete_all_listing",
             NoJs, 0, "", "", "ok",
             IF ~Parsable(fs, p) \/ (isfile(fs, RegistryFile) /\ ~Parsable(fs, RegistryFile))
             THEN Raised(fs, "JSONDecodeError", <<>>)
             ELSE IF last.ret.todo = {p}
             THEN Returned(fs, SortedTable(last.ret.table (+) SetToBag(EntriesOf(fs, filetype, p)),
                                           DOMAIN (last.ret.table (+)
                                                   SetToBag(EntriesOf(fs, filetype, p)))),
                           <<>>)
             ELSE Returned(fs, [todo |-> last.ret.todo \ {p},
                                table |-> last.ret.table (+)
                                          SetToBag(EntriesOf(fs, filetype, p))], <<>>))
    /\ UNCHANGED ncalls

\* the loop over the entries that were listed, on the files as they are by
\* now, and self.set_registry({})
CrashRemove ==
    /\ last.op = "delete_all_listed"
    /\ Step(IF RemoveEntries(fs, last.ret, 1).exc # "" THEN "delete_all"
            ELSE IF set_registry(RemoveEntries(fs, last.ret, 1).fs, EmptyRegistry).exc # ""
            THEN "delete_all"
            ELSE "delete_all_cleared",
            NoJs, 0, "", "", "ok",
            IF RemoveEntries(fs, last.ret, 1).exc # "" THEN RemoveEntries(fs, last.ret, 1)
            ELSE set_registry(RemoveEntries(fs, last.ret, 1).fs, EmptyRegistry))
    /\ UNCHANGED ncalls

\* with contextlib.suppress(OSError): os.rmdir(self.directory)
CrashRmdir ==
    /\ last.op = "delete_all_cleared"
    /\ Step("delete_all", NoJs, 0, "", "", "ok", Returned(rmdir(fs), "", <<>>))
    /\ UNCHANGED ncalls

\* The caller goes on after a call that has ended.
CrashNext ==
    \/ CrashCreate \/ CrashRun \/ InterruptedStart \/ InterruptedCreate \/ OrphanExit
    \/ RepairDelete \/ Repair \/ Delete
    \/ CrashListdir \/ CrashLoad \/ CrashRemove \/ CrashRmdir
    \/ (/\ last.op \notin {"create_waiting", "recreate_waiting", "recreate_deleted",
                           "delete_all_listing", "delete_all_listed",
                           "delete_all_cleared"}
        /\ Continue)

CrashSpec == Init /\ [][CrashNext]_vars

\* A caller of the earlier Manager.
DatabaseCreate ==
    /\ MayCall
    /\ \E js \in JS, outcome \in Outcomes :
        Step("database_create", js, 0, "", "", outcome,
             database_create(fs, filetype, js, outcome))

DatabaseDelete ==
    /\ MayCall
    /\ \E js \in JS :
        Step("database_delete", js, 0, "", "", "ok", database_delete(fs, filetype, js))

DatabaseReplace ==
    /\ MayCall
    /\ \E js \in JS, outcome \in Outcomes :
        Step("database_replace", js, 0, "", "", outcome,
             database_replace(fs, filetype, js, outcome))

DatabaseSelect ==
    /\ MayCall
    /\ \E js \in JS :
        Step("database_select", js, 0, "", "", "ok", database_select(fs, filetype, js))

DatabaseTable ==
    /\ MayCall
    /\ Step("database_table", NoJs, 0, "", "", "ok", database_table(fs, filetype))

DatabaseDeleteAll ==
    /\ MayCall
    /\ Step("database_delete_all", NoJs, 0, "", "", "ok", database_delete_all(fs, filetype))

DatabaseNext ==
    \/ DatabaseCreate \/ DatabaseDelete \/ DatabaseReplace \/ DatabaseSelect
    \/ DatabaseTable \/ DatabaseDeleteAll \/ Continue

DatabaseSpec == Init /\ [][DatabaseNext]_vars

\* A caller of a Repeater in the working directory.
RepeaterRun ==
    /\ MayCall
    /\ \E js \in JS, error \in ErrorPolicies, outcome \in Outcomes :
        Step("run", js, 0, "", error, outcome, run(fs, js, error, outcome))

RepeaterClean ==
    /\ MayCall
    /\ Step("clean", NoJs, 0, "", "", "ok", clean(fs))

\* repeater.executable = path
RepeaterSetExecutable ==
    /\ MayCall
    /\ \E path \in {Executable, "./other.sh"} :
        /\ executable' = path
        /\ last' = Call("set_executable", NoJs, 0, path, "", "", Returned(fs, "", <<>>))
    /\ UNCHANGED <<fs, directory, filetype, inputfile, outputfile, procs>>

\* repeater.inputfile = path
RepeaterSetInputfile ==
    /\ MayCall
    /\ \E path \in {Inputfile, "other.json"} :
        /\ inputfile' = path
        /\ last' = Call("set_inputfile", NoJs, 0, path, "", "", Returned(fs, "", <<>>))
    /\ UNCHANGED <<fs, directory, filetype, executable, outputfile, procs>>

\* repeater.outputfile = path; nothing keeps it apart from the input file
RepeaterSetOutputfile ==
    /\ MayCall
    /\ \E path \in {Outputfile, "other.json"} :
        /\ outputfile' = path
        /\ last' = Call("set_outputfile", NoJs, 0, path, "", "", Returned(fs, "", <<>>))
    /\ UNCHANGED <<fs, directory, filetype, executable, inputfile, procs>>

RepeaterNext ==
    \/ RepeaterRun \/ RepeaterClean \/ RepeaterSetExecutable
    \/ RepeaterSetInputfile \/ RepeaterSetOutputfile \/ Continue

RepeaterSpec == Init /\ [][RepeaterNext]_vars

----------------------------------------------------------------------------
(* Two processes in create(js) on the same directory *)

\* Each process runs create(js) with n = 0, no name and error = "raise", one
\* statement at a time:
\*   lookup         before ncfile = outfile(js, n); exists = isfile(ncfile)
\*   miss           the output file was seen to be absent
\*   open           the input file was seen to be absent
\*   dump           open(input, "w") has created or truncated the input file
\*   detached       the other process has removed the file that is open
\*   input          the input file is there
\*   running        subprocess.run has started the executable with argv
\*   failed         the executable has exited non-zero
\*   remove_output  the output file was seen to be there
\*   remove_input   the output file is out of the way
\*   raise          the input file has been removed
\*   done           create has returned ncfile or raised exc
Procs == {1, 2}

\* the positions between the existence check and the return
Working ==
    {"miss", "open", "dump", "detached", "input", "running", "failed",
     "remove_output", "remove_input", "raise"}

\* Variant: a process waits at the existence check while another process is
\* between its own check and its return for the same output file.
LockedOut(ps, p, ncfile) ==
    \E q \in Procs \ {p} : ps[q].pc \in Working /\ ps[q].ncfile = ncfile

\* create takes no lock: the existence check never waits for another process.
Blocked(ps, p, ncfile) == FALSE

\* os.remove(path) of one process: a file the other process holds open for
\* writing loses its name
RaceRemove(p, path, pc) ==
    /\ fs' = remove(fs, path)
    /\ procs' = IF isfile(fs, path)
                THEN [q \in Procs |->
                        IF q = p THEN [procs[q] EXCEPT !.pc = pc]
                        ELSE IF procs[q].pc = "dump" /\ jsonfile(fs, procs[q].js) = path
                        THEN [procs[q] EXCEPT !.pc = "detached"]
                        ELSE procs[q]]
                ELSE [procs EXCEPT ![p].pc = "done", ![p].exc = "FileNotFoundError"]
    /\ UNCHANGED <<directory, filetype, executable, inputfile, outputfile, last, ncalls>>

RaceInit ==
    /\ fs = [dirs |-> {Directory}, files |-> NoFiles]
    /\ directory = Directory
    /\ executable = Executable
    /\ inputfile = Inputfile
    /\ outputfile = Outputfile
    /\ filetype \in FileTypes
    /\ last = NoCall
    /\ ncalls = 0
    /\ procs \in [Procs -> {[pc |-> "lookup", js |-> js, ncfile |-> "",
                               argv |-> <<>>, exc |-> ""] : js \in JS}]

\* ncfile = self.outfile(js, n); exists = os.path.isfile(ncfile)
RaceLookup(p) ==
    /\ procs[p].pc = "lookup"
    /\ ~Blocked(procs, p, outfile(fs, procs[p].js, 0, filetype))
    /\ procs' = [procs EXCEPT ![p].ncfile = outfile(fs, procs[p].js, 0, filetype),
                              ![p].pc = IF CacheHit(fs, outfile(fs, procs[p].js, 0, filetype))
                                        THEN "done" ELSE "miss"]
    /\ UNCHANGED <<fs, directory, filetype, executable, inputfile, outputfile, last, ncalls>>

\* if not os.path.isfile(self.jsonfile(js)):
RaceCheckInput(p) ==
    /\ procs[p].pc = "miss"
    /\ procs' = [procs EXCEPT ![p].pc = IF isfile(fs, jsonfile(fs, procs[p].js))
                                        THEN "input" ELSE "open"]
    /\ UNCHANGED <<fs, directory, filetype, executable, inputfile, outputfile, last, ncalls>>

\* with open(self.jsonfile(js), "w") as f: the file is created, or truncated
\* when another process has written it since the check
RaceOpenInput(p) ==
    /\ procs[p].pc = "open"
    /\ fs' = write(fs, jsonfile(fs, procs[p].js), EmptyContent)
    /\ procs' = [procs EXCEPT ![p].pc = "dump"]
    /\ UNCHANGED <<directory, filetype, executable, inputfile, outputfile, last, ncalls>>

\* json.dump(js, f, ...) and the close that flushes it: the text goes to the
\* file that was opened, which has no name any more after a removal
RaceWriteInput(p) ==
    /\ procs[p].pc \in {"dump", "detached"}
    /\ fs' = IF procs[p].pc = "dump"
             THEN write(fs, jsonfile(fs, procs[p].js), JsonContent(procs[p].js))
             ELSE fs
    /\ procs' = [procs EXCEPT ![p].pc = "input"]
    /\ UNCHANGED <<directory, filetype, executable, inputfile, outputfile, last, ncalls>>

\* subprocess.run([executable, jsonfile(js), ncfile]) starts the executable
RaceInvoke(p) ==
    /\ procs[p].pc = "input"
    /\ procs' = [procs EXCEPT ![p].pc = "running",
                              ![p].argv = Argv(jsonfile(fs, procs[p].js),
                                               procs[p].ncfile, "", 0)]
    /\ UNCHANGED <<fs, directory, filetype, executable, inputfile, outputfile, last, ncalls>>

\* the executable writes its output file or not, and exits
RaceExit(p) ==
    /\ procs[p].pc = "running"
    /\ \E outcome \in {"ok", "fail", "fail_wrote"} :
        /\ fs' = RunExecutable(fs, procs[p].argv, procs[p].js, 0, outcome)
        /\ procs' = [procs EXCEPT ![p].pc = IF outcome = "ok" THEN "done" ELSE "failed"]
    /\ UNCHANGED <<directory, filetype, executable, inputfile, outputfile, last, ncalls>>

\* except CalledProcessError: if os.path.isfile(ncfile):
RaceCheckOutput(p) ==
    /\ procs[p].pc = "failed"
    /\ procs' = [procs EXCEPT ![p].pc = IF isfile(fs, procs[p].ncfile)
                                        THEN "remove_output" ELSE "remove_input"]
    /\ UNCHANGED <<fs, directory, filetype, executable, inputfile, outputfile, last, ncalls>>

\* os.remove(ncfile): raises if another process has removed it since the check
RaceRemoveOutput(p) ==
    /\ procs[p].pc = "remove_output"
    /\ RaceRemove(p, procs[p].ncfile, "remove_input")

\* if n == 0: os.remove(self.jsonfile(js)): raises if another process has
\* removed it
RaceRemoveInput(p) ==
    /\ procs[p].pc = "remove_input"
    /\ RaceRemove(p, jsonfile(fs, procs[p].js), "raise")

\* elif error == "raise": raise e
RaceRollback(p) ==
    /\ procs[p].pc = "raise"
    /\ procs' = [procs EXCEPT ![p].pc = "done", ![p].exc = "CalledProcessError"]
    /\ UNCHANGED <<fs, directory, filetype, executable, inputfile, outputfile, last, ncalls>>

RaceNext ==
    \E p \in Procs :
        \/ RaceLookup(p) \/ RaceCheckInput(p) \/ RaceOpenInput(p)
        \/ RaceWriteInput(p) \/ RaceInvoke(p) \/ RaceExit(p)
        \/ RaceCheckOutput(p) \/ RaceRemoveOutput(p) \/ RaceRemoveInput(p)
        \/ RaceRollback(p)

RaceSpec == RaceInit /\ [][RaceNext]_vars

----------------------------------------------------------------------------
(* Two processes in register(js, name) on the same directory *)

\* Each process runs register(js, name) one statement at a time:
\*   start    before registry = self.get_registry()
\*   read     registry holds the dictionary that was read
\*   checked  no check has raised; registry holds the binding of js
\*   opened   set_registry has opened the registry file for writing
\*   done     register has returned (set_registry has run) or raised exc
RECURSIVE DumpSizeOf(_, _)
DumpSizeOf(registry, keys) ==
    IF keys = {} THEN 0
    ELSE 52 + Len(registry[CHOOSE k \in keys : TRUE])
            + DumpSizeOf(registry, keys \ {CHOOSE k \in keys : TRUE})

\* the length of json.dump(registry, f, sort_keys=True, ensure_ascii=True, indent=4)
DumpSize(registry) == 2 + DumpSizeOf(registry, DOMAIN registry)

\* the length of a file
FileSize(content) ==
    IF content.kind = "json" THEN DumpSize(content.val)
    ELSE IF content.kind = "garbled" THEN content.size
    ELSE 0

\* The file after a text was written at its start, through a file object
\* that has truncated it when it was opened: what another file object has
\* written since then stays behind the text where it is longer, and the file
\* is garbled.
Overwritten(f, path, registry) ==
    IF FileSize(f.files[path]) > DumpSize(registry)
    THEN write(f, path, [kind |-> "garbled", size |-> FileSize(f.files[path])])
    ELSE write(f, path, JsonContent(registry))

RegisterRaceInit ==
    /\ fs = [dirs |-> {Directory}, files |-> NoFiles]
    /\ directory = Directory
    /\ executable = Executable
    /\ inputfile = Inputfile
    /\ outputfile = Outputfile
    /\ filetype \in FileTypes
    /\ last = NoCall
    /\ ncalls = 0
    /\ procs \in [Procs -> {[pc |-> "start", js |-> js, name |-> name,
                               registry |-> EmptyRegistry, exc |-> ""] :
                               js \in JS, name \in {"a", "bb", "simplesimdb"}}]

\* registry = self.get_registry(): json.load raises on a file that another
\* process has truncated or garbled
RegisterRead(p) ==
    /\ procs[p].pc = "start"
    /\ procs' = IF isfile(fs, RegistryFile) /\ ~Parsable(fs, RegistryFile)
                THEN [procs EXCEPT ![p].pc = "done", ![p].exc = "JSONDecodeError"]
                ELSE [procs EXCEPT ![p].pc = "read", ![p].registry = get_registry(fs)]
    /\ UNCHANGED <<fs, directory, filetype, executable, inputfile, outputfile, last, ncalls>>

\* the checks and registry[hashid] = name, on the dictionary that was read
RegisterCheck(p) ==
    /\ procs[p].pc = "read"
    /\ procs' = IF \/ ReservedName(procs[p].name)
                   \/ KnownUnderOtherName(procs[p].registry, hashinput(procs[p].js),
                                          procs[p].name)
                   \/ UnregisteredInputExists(fs, procs[p].registry,
                                              hashinput(procs[p].js))
                   \/ NameInUse(Bind(procs[p].registry, hashinput(procs[p].js),
                                     procs[p].name),
                                hashinput(procs[p].js), procs[p].name)
                THEN [procs EXCEPT ![p].pc = "done", ![p].exc = "Exception"]
                ELSE [procs EXCEPT ![p].pc = "checked",
                                   ![p].registry = Bind(procs[p].registry,
                                                        hashinput(procs[p].js),
                                                        procs[p].name)]
    /\ UNCHANGED <<fs, directory, filetype, executable, inputfile, outputfile, last, ncalls>>

\* set_registry: with open(registryFile, "w") as f: the file is truncated
RegisterOpen(p) ==
    /\ procs[p].pc = "checked"
    /\ fs' = write(fs, RegistryFile, EmptyContent)
    /\ procs' = [procs EXCEPT ![p].pc = "opened"]
    /\ UNCHANGED <<directory, filetype, executable, inputfile, outputfile, last, ncalls>>

\* set_registry: json.dump(registry, f, ...) and the close that flushes it;
\* the registry holds the binding of js, so "if not registry" removes nothing.
\* last is the call that has written last.
RegisterStore(p) ==
    /\ procs[p].pc = "opened"
    /\ fs' = Overwritten(fs, RegistryFile, procs[p].registry)
    /\ procs' = [procs EXCEPT ![p].pc = "done"]
    /\ last' = Call("register", procs[p].js, 0, procs[p].name, "", "",
                    Returned(Overwritten(fs, RegistryFile, procs[p].registry), "", <<>>))
    /\ UNCHANGED <<directory, filetype, executable, inputfile, outputfile, ncalls>>

RegisterRaceNext ==
    \E p \in Procs :
        \/ RegisterRead(p) \/ RegisterCheck(p) \/ RegisterOpen(p) \/ RegisterStore(p)

RegisterRaceSpec == RegisterRaceInit /\ [][RegisterRaceNext]_vars

----------------------------------------------------------------------------
(* Properties *)

\* the call that led to this state (to the next state, when primed)
IsCreate(c) == c.op = "create"
Ran(c) == c.calls # <<>>

\* C1: a create(r, n) with an empty name whose output file exists returns the
\* path of that file, does not run the executable and changes no file of the
\* directory.
C1_CacheHit ==
    [][(IsCreate(last') /\ last'.name = "" /\ exists(fs, last'.js, last'.n, filetype))
        => /\ last'.exc = ""
           /\ last'.ret = outfile(fs, last'.js, last'.n, filetype)
           /\ ~Ran(last')
           /\ fs' = fs]_vars

\* a create with an empty name has returned an existing file without a run
C1_Witness ==
    /\ IsCreate(last) /\ last.name = "" /\ last.exc = "" /\ ~Ran(last)
    /\ last.n = 1
    /\ isfile(fs, last.ret)
    /\ fs.files[last.ret].kind = "out"

\* C2: after create(r) (n = 0, no name, error = "raise") has returned, a second
\* create(r) returns the same path, whatever the executable would do, and the
\* two calls together run the executable at most once.
C2_Idempotent ==
    (IsCreate(last) /\ last.n = 0 /\ last.name = "" /\ last.error = "raise" /\ last.exc = "")
    => \A outcome \in Outcomes :
          /\ create(fs, filetype, last.js, 0, "", "raise", outcome).exc = ""
          /\ create(fs, filetype, last.js, 0, "", "raise", outcome).ret = last.ret
          /\ Len(last.calls)
               + Len(create(fs, filetype, last.js, 0, "", "raise", outcome).calls) <= 1

\* the first create(r) has run the executable
C2_Witness ==
    /\ IsCreate(last) /\ last.n = 0 /\ last.name = "" /\ last.error = "raise"
    /\ last.exc = "" /\ Ran(last)

\* C3: after a create(r, n) that returned, its run (if any) having exited with
\* code 0, exists(r, n) is True and the returned path is that of the file.
C3_ExistsAfterCreate ==
    (IsCreate(last) /\ last.exc = "" /\ last.exit \in {"", "zero"})
    => /\ exists(fs, last.js, last.n, filetype)
       /\ last.ret = outfile(fs, last.js, last.n, filetype)

\* a restart run under a registered name has succeeded
C3_Witness ==
    /\ IsCreate(last) /\ last.exc = "" /\ last.exit = "zero"
    /\ last.n = 1 /\ last.name = "a"
    /\ exists(fs, last.js, last.n, filetype)

\* C4: after a delete(r, n) that returned, exists(r, n) is False.
C4_NotExistsAfterDelete ==
    (last.op = "delete" /\ last.exc = "") => ~exists(fs, last.js, last.n, filetype)

\* C5: a create(r, 0) under error = "raise" whose run exits non-zero raises
\* the CalledProcessError with the captured stderr, and afterwards neither
\* the output file of (r, 0) nor the input file of r exists.
C5_RollbackAtZero ==
    (IsCreate(last) /\ last.n = 0 /\ last.exit = "nonzero" /\ last.error = "raise")
    => /\ last.exc = "CalledProcessError"
       /\ last.stderr = Stderr
       /\ ~exists(fs, last.js, 0, filetype)
       /\ ~isfile(fs, jsonfile(fs, last.js))

\* a failed first run under a registered name has been rolled back
C5_Witness ==
    /\ IsCreate(last) /\ last.n = 0 /\ last.exit = "nonzero" /\ last.error = "raise"
    /\ last.name = "a"
    /\ last.exc = "CalledProcessError"
    /\ ~isfile(fs, jsonfile(fs, last.js))

\* The paths of r other than the output file of (r, n), resolved as create
\* resolves them, in the file system g create leaves.
InputPath(g, js) == jsonfile(g, js)
OtherOutputs(g, js, n, ft) == {outfile(g, js, m, ft) : m \in (0..(MaxN + 1)) \ {n}}

\* the file at path is in g exactly as it is in f
SameFile(f, g, path) ==
    /\ isfile(f, path) <=> isfile(g, path)
    /\ isfile(f, path) => f.files[path] = g.files[path]

\* a create(r, n), n > 0, whose run exited non-zero
FailedRestart(c) == IsCreate(c) /\ c.n > 0 /\ c.exit = "nonzero"

\* C6 as stated: after a create(r, n), n > 0, whose run exits non-zero, the
\* output file of (r, n) is absent, and the input file of r and the output
\* files of the other indices of r are as they were before the call.
C6_RestartLeavesAllAsBefore ==
    [][FailedRestart(last')
        => /\ ~exists(fs', last'.js, last'.n, filetype)
           /\ SameFile(fs, fs', InputPath(fs', last'.js))
           /\ \A path \in OtherOutputs(fs', last'.js, last'.n, filetype) :
                 SameFile(fs, fs', path)]_vars

\* C6 (amended): after a create(r, n), n > 0, whose run exits non-zero, the
\* output file of (r, n) is absent and the output files of the other indices
\* of r are as they were before the call; the input file of r is not removed:
\* one that existed before the call is unchanged, and one that did not exist
\* has been written with r and is left in the directory.
C6_RestartKeepsInput ==
    [][FailedRestart(last')
        => /\ ~exists(fs', last'.js, last'.n, filetype)
           /\ \A path \in OtherOutputs(fs', last'.js, last'.n, filetype) :
                 SameFile(fs, fs', path)
           /\ isfile(fs', InputPath(fs', last'.js))
           /\ IF isfile(fs, InputPath(fs', last'.js))
              THEN SameFile(fs, fs', InputPath(fs', last'.js))
              ELSE fs'.files[InputPath(fs', last'.js)] = JsonContent(last'.js)]_vars

\* a failed restart has left the input file and the output of index 0
C6_Witness ==
    /\ FailedRestart(last)
    /\ isfile(fs, InputPath(fs, last.js))
    /\ exists(fs, last.js, 0, filetype)
    /\ ~exists(fs, last.js, last.n, filetype)

\* C7: when the run exits non-zero, create under error = "display" or "ignore"
\* returns the output path, which does not exist, and leaves the file system
\* that create under error = "raise" leaves, which raises instead.
C7_PolicyOnlyPropagation ==
    [][(IsCreate(last') /\ last'.exit = "nonzero")
        => \A outcome \in {"fail", "fail_wrote"} :
             /\ last'.error \in {"display", "ignore"}
                  => /\ last'.exc = ""
                     /\ last'.ret = outfile(fs', last'.js, last'.n, filetype)
                     /\ ~isfile(fs', last'.ret)
             /\ last'.error = "raise" => last'.exc = "CalledProcessError"
             /\ fs' = create(fs, filetype, last'.js, last'.n, last'.name, "raise", outcome).fs
             /\ create(fs, filetype, last'.js, last'.n, last'.name, "raise", outcome).exc
                  = "CalledProcessError"]_vars

\* a failed restart run under error = "display" has returned
C7_Witness ==
    /\ IsCreate(last) /\ last.exit = "nonzero" /\ last.error = "display"
    /\ last.exc = "" /\ last.n = 1
    /\ ~isfile(fs, last.ret)
    /\ isfile(fs, jsonfile(fs, last.js))

\* The four rejections of register(r, name), on the registry and the files
\* that the call finds.
RejectedName(f, js, name) ==
    LET registry == get_registry(f)
        key == hashinput(js)
    IN  \/ name = "simplesimdb"
        \/ key \in DOMAIN registry /\ registry[key] # name
        \/ key \notin DOMAIN registry /\ isfile(f, Join(directory, key \o ".json"))
        \/ \E other \in DOMAIN registry \ {key} : registry[other] = name

\* the registry of g maps the key of js to name
Bound(g, js, name) ==
    /\ hashinput(js) \in DOMAIN get_registry(g)
    /\ get_registry(g)[hashinput(js)] = name

\* C8 as stated: register(r, name) fails exactly in the four cases, and in
\* every other case it succeeds and the registry maps key(r) to name.
C8_RegisterFailsExactlyWhen ==
    [][last'.op = "register"
        => /\ (last'.exc # "") <=> RejectedName(fs, last'.js, last'.name)
           /\ last'.exc = "" => Bound(fs', last'.js, last'.name)]_vars

\* C8 (amended): register(r, name) fails exactly in the four cases or when the
\* managed directory does not exist (delete_all has removed it and it was not
\* set again); in every other case it succeeds and the registry maps key(r)
\* to name.
C8_RegisterFailsExactlyWhenOrNoDirectory ==
    [][last'.op = "register"
        => /\ (last'.exc # "") <=> (RejectedName(fs, last'.js, last'.name) \/ ~isdir(fs))
           /\ last'.exc = "" => Bound(fs', last'.js, last'.name)
           /\ RejectedName(fs, last'.js, last'.name) => last'.exc = "Exception"]_vars

\* a register for a key without a name was rejected for its existing input file
C8_Witness ==
    /\ last.op = "register" /\ last.exc = "Exception"
    /\ last.name = "a"
    /\ hashinput(last.js) \notin DOMAIN get_registry(fs)
    /\ isfile(fs, Join(directory, hashinput(last.js) \o ".json"))
    /\ \A key \in DOMAIN get_registry(fs) : get_registry(fs)[key] # "a"

\* C9: a register(r, name) that fails, and a create(r, n, name) whose
\* registration fails, change no file of the directory (the registry file
\* included) and do not run the executable.
C9_RejectedRegistrationNoEffect ==
    [][(\/ last'.op = "register" /\ last'.exc # ""
        \/ IsCreate(last') /\ last'.name # ""
             /\ register(fs, last'.js, last'.name).exc # "")
        => /\ last'.exc # ""
           /\ fs' = fs
           /\ ~Ran(last')]_vars

\* a create was rejected for a name in use, in a directory that holds files
C9_Witness ==
    /\ IsCreate(last) /\ last.name = "a" /\ last.exc = "Exception"
    /\ \E other \in DOMAIN get_registry(fs) \ {hashinput(last.js)} :
          get_registry(fs)[other] = "a"
    /\ hashinput(last.js) \notin DOMAIN get_registry(fs)
    /\ isfile(fs, Join(directory, "a.json"))

\* C10: the persisted registry never maps two keys to one name and never
\* maps a key to "simplesimdb".
C10_RegistryUnique ==
    /\ \A k1, k2 \in DOMAIN get_registry(fs) :
          get_registry(fs)[k1] = get_registry(fs)[k2] => k1 = k2
    /\ \A key \in DOMAIN get_registry(fs) : get_registry(fs)[key] # "simplesimdb"

\* both keys have names, and a register of one under the other's name was rejected
C10_Witness ==
    /\ last.op = "register" /\ last.exc = "Exception"
    /\ Cardinality(DOMAIN get_registry(fs)) = 2
    /\ \E other \in DOMAIN get_registry(fs) \ {hashinput(last.js)} :
          get_registry(fs)[other] = last.name

\* The files of the entry named d: its input file and the output files of
\* its indices.
InputPathOf(d) == Join(directory, d \o ".json")
OutputPathOf(d, n, ft) ==
    Join(directory, d \o (IF n > 0 THEN Hex(n) ELSE "")
                      \o (IF ft = "json" THEN "_out.json" ELSE "." \o ft))
EntryPaths(d, ft) == {InputPathOf(d)} \cup {OutputPathOf(d, n, ft) : n \in 0..(MaxN + 1)}

\* C11 as stated: a key bound to the name d stays bound to d over every
\* operation, unless no file of the entry named d remains on disk.
C11_BindingKeptWhileFilesRemain ==
    [][\A js \in JS, d \in Names :
          Bound(fs, js, d)
          => \/ Bound(fs', js, d)
             \/ \A path \in EntryPaths(d, filetype) : ~isfile(fs', path)]_vars

\* C11 (amended): a key bound to the name d stays bound to d over every
\* operation, except that a delete(r, 0) that finds the output file of index
\* 0 removes that file, the input file and the binding, whatever output files
\* of higher indices remain; that a recreate(r, 0) that finds the output file
\* of index 0 deletes likewise before it creates (under the name it is
\* given, if any); and that a delete_all that returns removes every binding,
\* also those of entries it lists no file of.
C11_BindingKeptUntilDeleted ==
    [][\A js \in JS, d \in Names :
          Bound(fs, js, d)
          => \/ Bound(fs', js, d)
             \/ /\ last'.op = "delete" /\ last'.exc = ""
                /\ last'.js = js /\ last'.n = 0
                /\ exists(fs, js, 0, filetype)
                /\ hashinput(js) \notin DOMAIN get_registry(fs')
                /\ ~isfile(fs', InputPathOf(d))
                /\ ~isfile(fs', OutputPathOf(d, 0, filetype))
             \/ /\ last'.op = "recreate"
                /\ last'.js = js /\ last'.n = 0
                /\ exists(fs, js, 0, filetype)
                /\ isfile(fs, InputPathOf(d))
             \/ /\ last'.op = "delete_all" /\ last'.exc = ""
                /\ get_registry(fs') = EmptyRegistry]_vars

\* a delete(r, 0) has removed the name of r and left the output of index 1
\* under that name
C11_Witness ==
    /\ last.op = "delete" /\ last.n = 0 /\ last.exc = ""
    /\ hashinput(last.js) \notin DOMAIN get_registry(fs)
    /\ ~isfile(fs, InputPathOf("a"))
    /\ isfile(fs, OutputPathOf("a", 1, filetype))
    /\ fs.files[OutputPathOf("a", 1, filetype)].js = last.js

\* C12: two distinct keys never resolve to the same display name, where a key
\* resolves to its registered name if it has one and to itself otherwise.
C12_ResolveInjective ==
    \A js1, js2 \in JS :
        js1 # js2 => Resolve(fs, hashinput(js1)) # Resolve(fs, hashinput(js2))

\* C13: an input file that exists at the path resolved for the record r holds
\* the serialization of r.
C13_InputFileHoldsRecord ==
    \A js \in JS :
        isfile(fs, jsonfile(fs, js)) => fs.files[jsonfile(fs, js)] = JsonContent(js)

\* the outputs of r exist at the indices 0..k-1
Chain(f, js, k, ft) == \A m \in 0..(k - 1) : exists(f, js, m, ft)

\* C14: count(r) is the smallest n >= 0 for which the output file of (r, n)
\* does not exist: k when the outputs of the indices 0..k-1 exist and that
\* of k does not, and j after the delete of the index j of a chain, whatever
\* outputs of higher indices exist.
C14_CountIsFirstGap ==
    \A js \in JS :
        /\ count(fs, filetype, js) >= 0
        /\ ~exists(fs, js, count(fs, filetype, js), filetype)
        /\ Chain(fs, js, count(fs, filetype, js), filetype)
        /\ (last.op = "delete" /\ last.exc = "" /\ last.js = js /\ last.n > 0
              /\ Chain(fs, js, last.n, filetype))
           => count(fs, filetype, js) = last.n

\* delete(r, 1) has cut a chain with outputs at 0, 1 and 2: count is 1 although
\* the output of index 2 exists
C14_Witness ==
    /\ last.op = "delete" /\ last.exc = "" /\ last.n = 1
    /\ exists(fs, last.js, 0, filetype)
    /\ ~exists(fs, last.js, 1, filetype)
    /\ exists(fs, last.js, 2, filetype)
    /\ count(fs, filetype, last.js) = 1

\* C15: after a delete(r, 0) that returned, the output file of (r, 0) and the
\* input file of r do not exist and the key of r is not bound in the
\* registry.
C15_DeleteZeroRemovesEntry ==
    (last.op = "delete" /\ last.n = 0 /\ last.exc = "")
    => /\ ~exists(fs, last.js, 0, filetype)
       /\ ~isfile(fs, jsonfile(fs, last.js))
       /\ hashinput(last.js) \notin DOMAIN get_registry(fs)

\* C16: a delete(r, n) with n > 0 returns, the output file of (r, n) does not
\* exist afterwards, and every other file of the directory (the input file of
\* r, the registry, the output files of the other indices of r, the files of
\* the other records) and the directory itself are as they were.
C16_DeleteRestartOnly ==
    [][(last'.op = "delete" /\ last'.n > 0)
        => /\ last'.exc = ""
           /\ ~isfile(fs', outfile(fs, last'.js, last'.n, filetype))
           /\ isdir(fs') = isdir(fs)
           /\ get_registry(fs') = get_registry(fs)
           /\ \A path \in (DOMAIN fs.files \cup DOMAIN fs'.files)
                             \ {outfile(fs, last'.js, last'.n, filetype)} :
                 SameFile(fs, fs', path)]_vars

\* after delete(r, 1) of a named record the output of index 1 is absent, and
\* the input file, the output of index 0, the name and a file of the other
\* record are in the directory
C16_Witness ==
    /\ last.op = "delete" /\ last.n = 1 /\ last.exc = ""
    /\ ~exists(fs, last.js, 1, filetype)
    /\ exists(fs, last.js, 0, filetype)
    /\ isfile(fs, jsonfile(fs, last.js))
    /\ Bound(fs, last.js, "a")
    /\ \E other \in JS \ {last.js} : exists(fs, other, 1, filetype)

\* C17: a delete(r, 0) of a chain of r with outputs at the indices 0 and 1
\* removes the input file and the output file of index 0, leaves the output
\* files of the indices >= 1 in the directory, and count(r) is 0 afterwards.
C17_DeleteZeroOfChain ==
    [][(last'.op = "delete" /\ last'.n = 0
          /\ exists(fs, last'.js, 0, filetype) /\ exists(fs, last'.js, 1, filetype))
        => /\ ~isfile(fs', jsonfile(fs, last'.js))
           /\ ~isfile(fs', outfile(fs, last'.js, 0, filetype))
           /\ \A m \in 1..(MaxN + 1) :
                 SameFile(fs, fs', outfile(fs, last'.js, m, filetype))
           /\ count(fs', filetype, last'.js) = 0]_vars

\* The file system in which create(r, n, name) looks for its output file: the
\* one its registration of the name, if any, has left.
Registered(f, c) == IF c.name # "" THEN register(f, c.js, c.name).fs ELSE f

\* a create whose registration, if any, succeeds and whose output file does
\* not exist
CacheMiss(f, c) ==
    /\ IsCreate(c)
    /\ c.name # "" => register(f, c.js, c.name).exc = ""
    /\ ~exists(Registered(f, c), c.js, c.n, filetype)

\* [executable, inputPath(r), outputPath(r, n)], and outputPath(r, n - 1) for
\* n > 0, on the name r resolves to in f
ExpectedArgv(f, js, n, ft) ==
    IF n = 0
    THEN <<executable, InputPathOf(Resolve(f, hashinput(js))),
           OutputPathOf(Resolve(f, hashinput(js)), 0, ft)>>
    ELSE <<executable, InputPathOf(Resolve(f, hashinput(js))),
           OutputPathOf(Resolve(f, hashinput(js)), n, ft),
           OutputPathOf(Resolve(f, hashinput(js)), n - 1, ft)>>

\* C18 as stated: on a cache miss, create(r, n) runs the executable exactly
\* once, with the argument vector of its index.
C18_RunsOnceOnMiss ==
    [][CacheMiss(fs, last')
        => last'.calls
             = <<ExpectedArgv(Registered(fs, last'), last'.js, last'.n, filetype)>>]_vars

\* C18 (amended): on a cache miss in an existing managed directory,
\* create(r, n) runs the executable exactly once, with the argument vector of
\* its index, whether or not the output file of the index n - 1 exists; when
\* the managed directory does not exist (delete_all has removed it and it was
\* not set again), create raises FileNotFoundError for the input file it
\* cannot write and does not run the executable.
C18_RunsOnceOnMissInDirectory ==
    [][CacheMiss(fs, last')
        => IF isdir(fs)
           THEN last'.calls
                  = <<ExpectedArgv(Registered(fs, last'), last'.js, last'.n, filetype)>>
           ELSE /\ last'.calls = <<>>
                /\ last'.exc = "FileNotFoundError"
                /\ fs' = fs]_vars

\* a create(r, 1) has run the executable once with a previous output file
\* that does not exist
C18_Witness ==
    /\ IsCreate(last) /\ last.n = 1 /\ last.exit = "zero"
    /\ Len(last.calls) = 1
    /\ Len(last.calls[1]) = 4
    /\ ~isfile(fs, last.calls[1][4])
    /\ isfile(fs, last.calls[1][3])

\* C19: select(r, n) returns the output path of (r, n) when that file exists
\* and raises ValueError otherwise; it changes no file and does not run the
\* executable.
C19_SelectProbes ==
    [][last'.op = "select"
        => /\ IF isfile(fs, OutputPathOf(Resolve(fs, hashinput(last'.js)), last'.n, filetype))
              THEN /\ last'.exc = ""
                   /\ last'.ret
                        = OutputPathOf(Resolve(fs, hashinput(last'.js)), last'.n, filetype)
              ELSE last'.exc = "ValueError"
           /\ fs' = fs
           /\ ~Ran(last')]_vars

\* select(r, 1) has raised for a record whose input file and output of index
\* 0 exist
C19_Witness ==
    /\ last.op = "select" /\ last.n = 1 /\ last.exc = "ValueError"
    /\ isfile(fs, jsonfile(fs, last.js))
    /\ exists(fs, last.js, 0, filetype)
    /\ ~exists(fs, last.js, 1, filetype)

\* C20: in an existing directory files() returns a table that holds, for every
\* record r and every n < count(r), the entry {id, n, inputfile, outputfile}
\* of (r, n) with id the display name of r, and nothing else; no two of its
\* entries have the same (id, n); it is sorted ascending by (id, n).
C20_FilesListsEntries ==
    isdir(fs) =>
        LET listed == files(fs, filetype)
            table == listed.ret
        IN  /\ listed.exc = ""
            /\ \A js \in JS : \A n \in 0..(count(fs, filetype, js) - 1) :
                  \E i \in 1..Len(table) :
                      /\ table[i].id = Resolve(fs, hashinput(js))
                      /\ table[i].n = n
                      /\ table[i].inputfile = InputPathOf(Resolve(fs, hashinput(js)))
                      /\ table[i].outputfile
                           = OutputPathOf(Resolve(fs, hashinput(js)), n, filetype)
            /\ \A i \in 1..Len(table) :
                  \E js \in JS :
                      /\ table[i].id = Resolve(fs, hashinput(js))
                      /\ table[i].n < count(fs, filetype, js)
            /\ \A i, j \in 1..Len(table) :
                  (table[i].id = table[j].id /\ table[i].n = table[j].n) => i = j
            /\ \A i \in 1..(Len(table) - 1) :
                  \/ StrLess(table[i].id, table[i + 1].id)
                  \/ table[i].id = table[i + 1].id /\ table[i].n < table[i + 1].n

\* C21 as stated: after a delete_all that returned, files() returns an empty
\* table and the registry file does not exist.
C21_EmptyAfterDeleteAll ==
    (last.op = "delete_all" /\ last.exc = "")
    => /\ files(fs, filetype).exc = ""
       /\ files(fs, filetype).ret = <<>>
       /\ ~isfile(fs, RegistryFile)

\* C21 (amended): after a delete_all that returned, the registry file does
\* not exist; files() returns an empty table when the managed directory is
\* still there (files that files() did not list remain in it), and raises
\* FileNotFoundError when delete_all has removed the directory.
C21_EmptyOrNoDirectoryAfterDeleteAll ==
    (last.op = "delete_all" /\ last.exc = "")
    => /\ ~isfile(fs, RegistryFile)
       /\ IF isdir(fs)
          THEN /\ files(fs, filetype).exc = ""
               /\ files(fs, filetype).ret = <<>>
               /\ listdir(fs) # {}
          ELSE /\ files(fs, filetype).exc = "FileNotFoundError"
               /\ listdir(fs) = {}

\* delete_all has returned in a directory that keeps the files of an entry
\* without an output of index 0
C21_Witness ==
    /\ last.op = "delete_all" /\ last.exc = ""
    /\ isdir(fs)
    /\ listdir(fs) # {}
    /\ files(fs, filetype).ret = <<>>

\* the paths of the input and output files that files() reports in f
ReportedPaths(f, ft) ==
    {files(f, ft).ret[i].inputfile : i \in 1..Len(files(f, ft).ret)}
        \cup {files(f, ft).ret[i].outputfile : i \in 1..Len(files(f, ft).ret)}

\* C22, in a managed directory that exists: delete_all returns; the files that
\* files() reported are removed and every other file but the registry is as
\* it was; the registry is empty afterwards; the directory is removed exactly
\* when no file remains in it.
C22_DeleteAllCompletes ==
    [][(last'.op = "delete_all" /\ isdir(fs))
        => /\ last'.exc = ""
           /\ \A path \in ReportedPaths(fs, filetype) : ~isfile(fs', path)
           /\ \A path \in DOMAIN fs.files \ (ReportedPaths(fs, filetype) \cup {RegistryFile}) :
                 SameFile(fs, fs', path)
           /\ get_registry(fs') = EmptyRegistry
           /\ isdir(fs') <=> listdir(fs') # {}]_vars

\* C23: in an existing directory table() returns one element for every record
\* whose count is at least 1, equal to that record, and nothing else.
C23_TableOnePerRecord ==
    isdir(fs) =>
        LET rows == Table(fs, filetype)
        IN  /\ rows.exc = ""
            /\ \A js \in JS :
                  Cardinality({i \in 1..Len(rows.ret) : rows.ret[i] = js})
                    = IF count(fs, filetype, js) >= 1 THEN 1 ELSE 0
            /\ \A i \in 1..Len(rows.ret) : rows.ret[i] \in JS

\* C24: after every operation the registry file exists exactly when the
\* registry holds a binding, and it never holds an empty registry.
C24_RegistryFileIffBindings ==
    /\ isfile(fs, RegistryFile) <=> DOMAIN get_registry(fs) # {}
    /\ isfile(fs, RegistryFile)
         => /\ fs.files[RegistryFile].kind = "json"
            /\ fs.files[RegistryFile].val # EmptyRegistry

\* a delete(r, 0) has removed the last binding and with it the registry file,
\* while output files remain in the directory
C24_Witness ==
    /\ last.op = "delete" /\ last.n = 0 /\ last.exc = ""
    /\ ~isfile(fs, RegistryFile)
    /\ isfile(fs, OutputPathOf("a", 1, filetype))

\* C25, for a recreate(r, n) without a name in a managed directory that
\* exists: whether or not the output file of (r, n) existed, the executable
\* is run exactly once during the call, and when that run exits with code 0,
\* exists(r, n) holds afterwards.
C25_RecreateRunsOnce ==
    [][(last'.op = "recreate" /\ last'.name = "" /\ isdir(fs))
        => /\ Len(last'.calls) = 1
           /\ last'.exit = "zero" => exists(fs', last'.js, last'.n, filetype)]_vars

\* a process between its existence check and its return
InFlight(ps, p) == ps[p].pc \in Working

\* the existence check of q finds the output file absent
ObservesAbsent(q) == RaceLookup(q) /\ procs'[q].pc = "miss"

\* C26: there is no mutual exclusion between two processes in create(r) for
\* the same record: while one process is between its existence check and its
\* return and the output file is absent, the existence check of the other is
\* not held back and finds the file absent as well.
C26_NoMutualExclusion ==
    \A p \in Procs : \A q \in Procs \ {p} :
        (/\ InFlight(procs, p)
         /\ procs[q].pc = "lookup"
         /\ procs[q].js = procs[p].js
         /\ ~exists(fs, procs[q].js, 0, filetype))
        => ENABLED ObservesAbsent(q)

\* both processes have seen the output file absent and have both started the
\* executable with the same output path
C26_Witness ==
    /\ procs # NoProcs
    /\ procs[1].pc = "running" /\ procs[2].pc = "running"
    /\ procs[1].js = procs[2].js
    /\ procs[1].argv[3] = procs[2].argv[3]
    /\ ~isfile(fs, procs[1].argv[3])

\* C27: every Repeater.run(r), whether or not the output file exists and
\* whatever the setters have made of the executable and the file pair, runs
\* the executable exactly once, with [executable, inputfile, outputfile], on
\* an input file it has written r to: after the call the input file holds r,
\* unless the output file is the same path, where the executable has written
\* its output over r if it exited 0 and may have done so if it failed.
C27_RepeaterAlwaysRuns ==
    [][last'.op = "run"
        => /\ last'.calls = <<(<<executable, inputfile, outputfile>>)>>
           /\ isfile(fs', inputfile)
           /\ inputfile # outputfile => fs'.files[inputfile] = JsonContent(last'.js)
           /\ (inputfile = outputfile /\ last'.exit = "zero")
                => fs'.files[inputfile] = OutContent(last'.js, 0)
           /\ (inputfile = outputfile /\ last'.exit # "zero")
                => fs'.files[inputfile] \in {JsonContent(last'.js), OutContent(last'.js, 0)}]_vars

\* after the setters have moved the file pair and the executable, a run for
\* one record has started the executable although the output file of a run
\* for another record was there, and has replaced the input file
C27_Witness ==
    /\ last.op = "run" /\ Len(last.calls) = 1
    /\ executable # Executable /\ inputfile # Inputfile /\ outputfile = Outputfile
    /\ isfile(fs, outputfile)
    /\ fs.files[outputfile].js # last.js
    /\ fs.files[inputfile] = JsonContent(last.js)

\* C28: a recreate(r, n) that follows a killed create(r, n) and whose run
\* exits 0 returns with the input file of r holding r and the output file of
\* (r, n) present, written by that one run.
C28_RecreateRepairs ==
    [][(last.op = "recreate_waiting" /\ last'.op = "recreate" /\ last'.exit = "zero")
        => /\ last'.exc = ""
           /\ isfile(fs', jsonfile(fs', last'.js))
           /\ fs'.files[jsonfile(fs', last'.js)] = JsonContent(last'.js)
           /\ isfile(fs', outfile(fs', last'.js, last'.n, filetype))
           /\ Len(last'.calls) = 1
           /\ last'.calls[1][3] = outfile(fs', last'.js, last'.n, filetype)]_vars

\* C29: a create(js) of the earlier Manager whose executable exits non-zero
\* raises CalledProcessError and leaves neither the input file nor the output
\* file of js, whether or not the executable wrote the output file.
C29_FailureCleansEntry ==
    [][(last'.op = "database_create" /\ last'.exit = "nonzero")
        => /\ last'.exc = "CalledProcessError"
           /\ ~isfile(fs', database_jsonfile(last'.js))
           /\ ~isfile(fs', database_outfile(last'.js, filetype))]_vars

\* C30: when create(r, n, name) binds key(r) to a name no key had and the
\* executable exits non-zero, the stored registry binds key(r) to the name
\* after the call under every error policy, although the output file and,
\* for n = 0, the input file are gone.
C30_BindingSurvivesRollback ==
    [][(/\ last'.op = "create" /\ last'.name # "" /\ last'.exit = "nonzero"
        /\ hashinput(last'.js) \notin DOMAIN get_registry(fs)
        /\ \A key \in DOMAIN get_registry(fs) : get_registry(fs)[key] # last'.name)
        => /\ isfile(fs', RegistryFile)
           /\ hashinput(last'.js) \in DOMAIN get_registry(fs')
           /\ get_registry(fs')[hashinput(last'.js)] = last'.name
           /\ ~isfile(fs', outfile(fs', last'.js, last'.n, filetype))
           /\ last'.n = 0 => ~isfile(fs', jsonfile(fs', last'.js))]_vars

\* the first call is a create under the name a whose run exits non-zero and
\* whose error is not raised: the entry's files are gone, the name is bound
C30_Witness ==
    /\ ncalls = 1
    /\ last.op = "create" /\ last.name = "a" /\ last.n = 0
    /\ last.exit = "nonzero" /\ last.error = "ignore" /\ last.exc = ""
    /\ get_registry(fs) = [k \in {hashinput(last.js)} |-> "a"]
    /\ ~isfile(fs, Join(directory, "a.json"))

\* C31: an output file that exists at the path of (r, n), the file that
\* create, select, exists and count take for the output of r at index n, was
\* written by a run of the executable for the record r and the index n.
C31_OutputProvenance ==
    \A js \in JS, n \in 0..(MaxN + 1) :
        exists(fs, js, n, filetype)
            => fs.files[outfile(fs, js, n, filetype)] = OutContent(js, n)

\* C32: under every registry the directory gets to hold, two distinct pairs
\* of a key and a restart index have distinct output paths, and no output
\* path is the input path of a record or the path of the registry file.
C32_PathsDisjoint ==
    \A js1, js2 \in JS, n1, n2 \in 0..(MaxN + 1) :
        /\ <<js1, n1>> # <<js2, n2>>
              => outfile(fs, js1, n1, filetype) # outfile(fs, js2, n2, filetype)
        /\ outfile(fs, js1, n1, filetype) # jsonfile(fs, js2)
        /\ outfile(fs, js1, n1, filetype) # RegistryFile

\* no two keys of the registry have the same name
NamesUnique(registry) ==
    \A k1, k2 \in DOMAIN registry : registry[k1] = registry[k2] => k1 = k2

\* C33: while two processes run register without a lock, every registry that
\* is stored (every registry file that json.load can read) has unique names
\* and holds the binding of the call that has written last; the binding of the
\* other call may be lost.
C33_StoredRegistryNamesUnique ==
    Parsable(fs, RegistryFile)
        => /\ NamesUnique(get_registry(fs))
           /\ last.op = "register"
           /\ hashinput(last.js) \in DOMAIN get_registry(fs)
           /\ get_registry(fs)[hashinput(last.js)] = last.name

\* both calls, for distinct keys and distinct names, have returned, and the
\* stored registry holds one binding only
C33_Witness ==
    /\ \A p \in Procs : procs[p].pc = "done" /\ procs[p].exc = ""
    /\ procs[1].js # procs[2].js /\ procs[1].name # procs[2].name
    /\ Parsable(fs, RegistryFile)
    /\ DOMAIN get_registry(fs) = {hashinput(last.js)}
    /\ \E p \in Procs : procs[p].js # last.js /\ procs[p].registry # get_registry(fs)

====
